---- MODULE Spec2Model ----
(***************************************************************************)
(* Model of jsont/basic_from_json_converters.py: the converters that turn  *)
(* an object representing json into a value of a target type.              *)
(*                                                                         *)
(* Python values are records tagged with their runtime class in field k:   *)
(*   NoneType, bool, int, float, str : [k, n, h, s]                        *)
(*        n + h/2 is the numeric value (h = 1 only for floats), s is the   *)
(*        text of a str as a sequence of one-character strings            *)
(*   list, tuple                     : [k, items]                          *)
(*   dict                            : [k, entries], entries a sequence of *)
(*        [key, val] in insertion order with pairwise distinct keys        *)
(*   ValueError                      : [k, reason, js, target_type,        *)
(*        pairs, literals, keys], the content of the formatted message     *)
(* Target types are records tagged in field k with the class or the origin *)
(* of the generic; args is what typing.get_args returns.                   *)
(***************************************************************************)
EXTENDS Integers, Sequences, FiniteSets, TLC

VARIABLES js, target_type, strict, pc, res

vars == <<js, target_type, strict, pc, res>>

\* ---------------------------------------------------------------- bounds
MaxLen == 3

MaxSlots == 3

MaxVariants == 3

\* --------------------------------------------------------- python values
PyNone == [k |-> "NoneType", n |-> 0, h |-> 0, s |-> <<>>]

PyBool(b) == [k |-> "bool", n |-> IF b THEN 1 ELSE 0, h |-> 0, s |-> <<>>]

PyInt(i) == [k |-> "int", n |-> i, h |-> 0, s |-> <<>>]

PyFloat(i, half) == [k |-> "float", n |-> i, h |-> half, s |-> <<>>]

PyStr(chars) == [k |-> "str", n |-> 0, h |-> 0, s |-> chars]

PyList(items) == [k |-> "list", items |-> items]

PyTuple(items) == [k |-> "tuple", items |-> items]

PyDict(entries) == [k |-> "dict", entries |-> entries]

Unset == [k |-> "<unset>"]

ValueError(reason, j, ty, pairs, literals, keys) ==
    [k |-> "ValueError", reason |-> reason, js |-> j, target_type |-> ty,
     pairs |-> pairs, literals |-> literals, keys |-> keys]

\* The exception of a failed assert statement; it is not a ValueError.
AssertionError ==
    [k |-> "AssertionError", reason |-> "", js |-> Unset, target_type |-> Unset,
     pairs |-> <<>>, literals |-> <<>>, keys |-> {}]

\* --------------------------------------------------------- target types
TAny == [k |-> "Any"]

TNone == [k |-> "NoneType"]

TInt == [k |-> "int"]

TFloat == [k |-> "float"]

TStr == [k |-> "str"]

TBool == [k |-> "bool"]

Ellipsis == [k |-> "..."]

TLiteral(args) == [k |-> "Literal", args |-> args]

TUnion(args) == [k |-> "Union", args |-> args]

TTuple(args) == [k |-> "tuple", args |-> args]

TSequence(elem) == [k |-> "Sequence", args |-> <<elem>>]

TMapping(key, val) == [k |-> "Mapping", args |-> <<key, val>>]

TTypedDict(annotations, required) ==
    [k |-> "TypedDict", annotations |-> annotations, required_keys |-> required]

\* ------------------------------------------------------ python builtins
Numeric == {"bool", "int", "float"}

RECURSIVE PyEq(_, _)
PyEq(a, b) ==
    IF a.k \in Numeric /\ b.k \in Numeric THEN a.n = b.n /\ a.h = b.h
    ELSE IF a.k # b.k THEN FALSE
    ELSE IF a.k \in {"list", "tuple"}
         THEN /\ Len(a.items) = Len(b.items)
              /\ \A i \in 1..Len(a.items) : PyEq(a.items[i], b.items[i])
    ELSE IF a.k = "dict"
         THEN /\ Len(a.entries) = Len(b.entries)
              /\ \A i \in 1..Len(a.entries) : \E j \in 1..Len(b.entries) :
                    /\ a.entries[i].key = b.entries[j].key
                    /\ PyEq(a.entries[i].val, b.entries[j].val)
    ELSE a = b

PyIn(x, seq) == \E i \in 1..Len(seq) : PyEq(seq[i], x)

Truthy(v) ==
    IF v.k \in Numeric THEN v.n # 0 \/ v.h # 0
    ELSE IF v.k = "NoneType" THEN FALSE
    ELSE IF v.k = "str" THEN v.s # <<>>
    ELSE IF v.k \in {"list", "tuple"} THEN v.items # <<>>
    ELSE IF v.k = "dict" THEN v.entries # <<>>
    ELSE TRUE

IsInstance(v, ty) == v.k = ty.k \/ (v.k = "bool" /\ ty.k = "int")

IsSequence(v) == v.k \in {"list", "tuple", "str"}

IsMapping(v) == v.k = "dict"

PyLen(v) == IF v.k = "str" THEN Len(v.s) ELSE Len(v.items)

PyIter(v) == IF v.k = "str" THEN [i \in 1..Len(v.s) |-> PyStr(<<v.s[i]>>)] ELSE v.items

PyRepeat(x, count) == [i \in 1..count |-> x]

Count(seq, x) == Cardinality({i \in 1..Len(seq) : seq[i] = x})

Index(seq, x) == CHOOSE i \in 1..Len(seq) : seq[i] = x /\ \A j \in 1..(i - 1) : seq[j] # x

Zip(a, b) ==
    [i \in 1..(IF Len(a) < Len(b) THEN Len(a) ELSE Len(b)) |-> <<a[i], b[i]>>]

Keys(d) == {d.entries[i].key : i \in 1..Len(d.entries)}

IsKnown(key, annotations) == key \in DOMAIN annotations

\* ------------------------------------------------------------- outcomes
\* A call either returns val or raises err; calls lists the arguments of the
\* from_json calls the call made itself, in the order it made them.
Return(v, calls) == [ok |-> TRUE, val |-> v, err |-> Unset, calls |-> calls]

Raise(e, calls) == [ok |-> FALSE, val |-> Unset, err |-> e, calls |-> calls]

Call(j, ty) == [js |-> j, ty |-> ty]

RECURSIVE from_json(_, _)

\* ---------------------------------------------------------- can_convert
ToAny_can_convert(ty) == ty.k = "Any"

ToUnion_can_convert(ty) == ty.k = "Union"

ToLiteral_can_convert(ty) == ty.k = "Literal"

ToNone_can_convert(ty) == ty.k = "NoneType"

ToSimple_can_convert(ty) == ty.k \in {"int", "float", "str", "bool"}

ToTuple_can_convert(ty) == ty.k = "tuple"

ToSequence_can_convert(ty) == ty.k \in {"Sequence", "tuple"}

ToMapping_can_convert(ty) == ty.k = "Mapping"

ToTypedMapping_can_convert(ty) == ty.k = "TypedDict"

\* -------------------------------------------------------------- helpers
\* res is what the loop returns; raised is the exception that leaves it, which
\* is any exception of f other than a ValueError.
RECURSIVE first_success_from(_, _, _)
first_success_from(i, failures, calls) ==
    IF i = <<>> THEN [res |-> PyList(failures), raised |-> Unset, calls |-> calls]
    ELSE LET args == Head(i)
             r == from_json(args.js, args.ty)
         IN IF r.ok THEN [res |-> r.val, raised |-> Unset, calls |-> Append(calls, args)]
            ELSE IF r.err.k = "ValueError"
            THEN first_success_from(Tail(i), Append(failures, r.err), Append(calls, args))
            ELSE [res |-> Unset, raised |-> r.err, calls |-> Append(calls, args)]

_first_success(i) == first_success_from(i, <<>>, <<>>)

_fill_ellipsis_off_by_one(types, expected_len, fill_type) ==
    LET ellipsis_idx == Index(types, Ellipsis)
    IN SubSeq(types, 1, ellipsis_idx - 1)
         \o PyRepeat(fill_type, expected_len - Len(types))
         \o SubSeq(types, ellipsis_idx + 1, Len(types))

_fill_ellipsis(types, expected_len, fill_type) ==
    LET ellipsis_idx == Index(types, Ellipsis)
    IN SubSeq(types, 1, ellipsis_idx - 1)
         \o PyRepeat(fill_type, expected_len - Len(types) + 1)
         \o SubSeq(types, ellipsis_idx + 1, Len(types))

_replace_ellipsis(element_types, expected_len) ==
    IF Count(element_types, Ellipsis) > 0
    THEN _fill_ellipsis(element_types, expected_len, TAny)
    ELSE element_types

\* Evaluation of a comprehension  f(from_json(v, ty) for ...)  : the items are
\* evaluated left to right; an item whose type expression raises (err set)
\* or whose from_json raises ends the evaluation with that exception.
RECURSIVE comprehension_keep_going(_, _, _)
comprehension_keep_going(args, vals, calls) ==
    IF args = <<>> THEN [ok |-> TRUE, vals |-> vals, err |-> Unset, calls |-> calls]
    ELSE LET a == Head(args)
         IN IF a.err.k # "<unset>"
            THEN [ok |-> FALSE, vals |-> <<>>, err |-> a.err, calls |-> calls]
            ELSE LET r == from_json(a.js, a.ty)
                     rest == comprehension_keep_going(Tail(args), Append(vals, r.val),
                                                      Append(calls, Call(a.js, a.ty)))
                 IN IF r.ok THEN rest
                    ELSE [ok |-> FALSE, vals |-> <<>>, err |-> r.err, calls |-> rest.calls]

RECURSIVE comprehension(_, _, _)
comprehension(args, vals, calls) ==
    IF args = <<>> THEN [ok |-> TRUE, vals |-> vals, err |-> Unset, calls |-> calls]
    ELSE LET a == Head(args)
         IN IF a.err.k # "<unset>"
            THEN [ok |-> FALSE, vals |-> <<>>, err |-> a.err, calls |-> calls]
            ELSE LET r == from_json(a.js, a.ty)
                 IN IF r.ok
                    THEN comprehension(Tail(args), Append(vals, r.val),
                                       Append(calls, Call(a.js, a.ty)))
                    ELSE [ok |-> FALSE, vals |-> <<>>, err |-> r.err,
                          calls |-> Append(calls, Call(a.js, a.ty))]

Arg(j, ty) == [js |-> j, ty |-> ty, err |-> Unset]

\* ----------------------------------------------------------- converters
ToAny_convert(j, ty) == Return(j, <<>>)

union_types_declared_order(union_types) == union_types

union_types_with_str_first(union_types) ==
    (IF \E i \in 1..Len(union_types) : union_types[i] = TStr THEN <<TStr>> ELSE <<>>)
      \o SelectSeq(union_types, LAMBDA ty : ty # TStr)

is_failure_list_unchecked(res_or_failures) ==
    /\ Truthy(res_or_failures)
    /\ res_or_failures.k = "list"

is_failure_list(res_or_failures) ==
    /\ Truthy(res_or_failures)
    /\ res_or_failures.k = "list"
    /\ \A i \in 1..Len(res_or_failures.items) : res_or_failures.items[i].k = "ValueError"

ToUnion_convert(j, ty) ==
    LET union_types == ty.args
        str_first == union_types_with_str_first(union_types)
        r == _first_success([i \in 1..Len(str_first) |-> Call(j, str_first[i])])
    IN IF r.raised.k # "<unset>" THEN Raise(r.raised, r.calls)
       ELSE IF is_failure_list(r.res)
       THEN Raise(ValueError("not any of", j, ty, Zip(str_first, r.res.items), <<>>, {}),
                  r.calls)
       ELSE Return(r.res, r.calls)

ToLiteral_convert(j, ty) ==
    LET literals == ty.args
    IN IF PyIn(j, literals) THEN Return(j, <<>>)
       ELSE Raise(ValueError("not any of literals", j, ty, <<>>, literals, {}), <<>>)

ToNone_convert(j, ty) ==
    IF j.k = "NoneType" THEN Return(PyNone, <<>>)
    ELSE Raise(ValueError("not None", j, ty, <<>>, <<>>, {}), <<>>)

ToSimple_convert(j, ty) ==
    IF IsInstance(j, ty) THEN Return(j, <<>>)
    ELSE Raise(ValueError("not instance", j, ty, <<>>, <<>>, {}), <<>>)

more_than_two_ellipsis(element_types) == Count(element_types, Ellipsis) > 2

more_than_one_ellipsis(element_types) == Count(element_types, Ellipsis) > 1

ToTuple_convert(j, ty) ==
    IF more_than_one_ellipsis(ty.args)
    THEN Raise(ValueError("more than one ...", j, ty, <<>>, <<>>, {}), <<>>)
    ELSE IF IsSequence(j)
    THEN LET element_types == _replace_ellipsis(ty.args, PyLen(j))
         IN IF PyLen(j) # Len(element_types)
            THEN Raise(ValueError("number of type parameter do not match",
                                  j, ty, <<>>, <<>>, {}), <<>>)
            ELSE LET elems == PyIter(j)
                     c == comprehension([i \in 1..Len(elems) |->
                                            Arg(elems[i], element_types[i])], <<>>, <<>>)
                 IN IF c.ok THEN Return(PyTuple(c.vals), c.calls) ELSE Raise(c.err, c.calls)
    ELSE Raise(ValueError("types are not convertible", j, ty, <<>>, <<>>, {}), <<>>)

ToSequence_convert(j, ty) ==
    LET element_types == IF ty.args # <<>> THEN ty.args ELSE <<TAny>>
    IN IF Len(element_types) # 1 THEN Raise(AssertionError, <<>>)
       ELSE IF IsSequence(j)
       THEN LET elems == PyIter(j)
                c == comprehension([i \in 1..Len(elems) |-> Arg(elems[i], element_types[1])],
                                   <<>>, <<>>)
            IN IF c.ok THEN Return(PyList(c.vals), c.calls) ELSE Raise(c.err, c.calls)
       ELSE Raise(ValueError("not a sequence", j, ty, <<>>, <<>>, {}), <<>>)

ToMapping_convert(j, ty) ==
    LET key_value_types == IF ty.args # <<>> THEN ty.args ELSE <<TStr, TAny>>
        key_type == key_value_types[1]
        value_type == key_value_types[2]
    IN IF key_type # TStr
       THEN Raise(ValueError("key-type", j, ty, <<>>, <<>>, {}), <<>>)
       ELSE IF IsMapping(j)
       THEN LET c == comprehension([i \in 1..Len(j.entries) |->
                                       Arg(j.entries[i].val, value_type)], <<>>, <<>>)
            IN IF c.ok
               THEN Return(PyDict([i \in 1..Len(j.entries) |->
                                     [key |-> j.entries[i].key, val |-> c.vals[i]]]),
                           c.calls)
               ELSE Raise(c.err, c.calls)
       ELSE Raise(ValueError("not a mapping", j, ty, <<>>, <<>>, {}), <<>>)

type_for_key(j, ty, annotations, e) ==
    IF IsKnown(e.key, annotations)
    THEN Arg(e.val, annotations[e.key])
    ELSE [js |-> e.val, ty |-> Unset,
          err |-> ValueError("unknown key", j, ty, <<>>, <<>>, {e.key})]

items_all(j, annotations, is_strict) == j.entries

items_to_convert(j, annotations, is_strict) ==
    IF is_strict THEN j.entries
    ELSE SelectSeq(j.entries, LAMBDA e : IsKnown(e.key, annotations))

has_required_keys(j, ty) == ty.required_keys \subseteq Keys(j)

ToTypedMapping_convert(j, ty, annotations, is_strict) ==
    IF IsMapping(j) /\ ty.k = "TypedDict"
    THEN IF has_required_keys(j, ty)
         THEN LET items == items_to_convert(j, annotations, is_strict)
                  c == comprehension([i \in 1..Len(items) |->
                                        type_for_key(j, ty, annotations, items[i])],
                                     <<>>, <<>>)
              IN IF c.ok
                 THEN Return(PyDict([i \in 1..Len(items) |->
                                       [key |-> items[i].key, val |-> c.vals[i]]]),
                             c.calls)
                 ELSE Raise(c.err, c.calls)
         ELSE Raise(ValueError("does not contain all required keys", j, ty,
                               <<>>, <<>>, ty.required_keys), <<>>)
    ELSE Raise(ValueError("not a typed mapping", j, ty, <<>>, <<>>, {}), <<>>)

\* ------------------------------------------------------------ the engine
\* The registry: the first converter, in registration order, that can convert
\* to the target type.
Select(ty) ==
    IF ToAny_can_convert(ty) THEN "ToAny"
    ELSE IF ToNone_can_convert(ty) THEN "ToNone"
    ELSE IF ToLiteral_can_convert(ty) THEN "ToLiteral"
    ELSE IF ToUnion_can_convert(ty) THEN "ToUnion"
    ELSE IF ToSimple_can_convert(ty) THEN "ToSimple"
    ELSE IF ToTuple_can_convert(ty) THEN "ToTuple"
    ELSE IF ToSequence_can_convert(ty) THEN "ToSequence"
    ELSE IF ToMapping_can_convert(ty) THEN "ToMapping"
    ELSE IF ToTypedMapping_can_convert(ty) THEN "ToTypedMapping"
    ELSE "NotFound"

Annotations(ty) == IF ty.k = "TypedDict" THEN ty.annotations ELSE <<>>

from_json(j, ty) ==
    LET c == Select(ty)
    IN CASE c = "ToAny" -> ToAny_convert(j, ty)
         [] c = "ToNone" -> ToNone_convert(j, ty)
         [] c = "ToLiteral" -> ToLiteral_convert(j, ty)
         [] c = "ToUnion" -> ToUnion_convert(j, ty)
         [] c = "ToSimple" -> ToSimple_convert(j, ty)
         [] c = "ToTuple" -> ToTuple_convert(j, ty)
         [] c = "ToSequence" -> ToSequence_convert(j, ty)
         [] c = "ToMapping" -> ToMapping_convert(j, ty)
         [] c = "ToTypedMapping" -> ToTypedMapping_convert(j, ty, Annotations(ty), strict)
         [] OTHER -> Raise(ValueError("no converter", j, ty, <<>>, <<>>, {}), <<>>)

\* --------------------------------------------------------------- inputs
SeqsUpTo(S, n) == UNION {[1..m -> S] : m \in 0..n}

Injective(seq) == \A i, j \in 1..Len(seq) : i # j => seq[i] # seq[j]

ScalarValues ==
    {PyNone, PyBool(TRUE), PyBool(FALSE), PyInt(1), PyInt(2), PyFloat(1, 0), PyFloat(1, 1),
     PyStr(<<>>), PyStr(<<"a">>), PyStr(<<"a", "b">>)}

ElementValues == {PyInt(1), PyStr(<<"a">>), PyBool(TRUE)}

ArrayValues == {PyList(items) : items \in SeqsUpTo(ElementValues, MaxLen)}

FieldNames == {"k1", "k2", "un"}

EntryValues == {PyFloat(1, 0), PyInt(2), PyStr(<<"z">>)}

ObjectValues ==
    {PyDict([i \in 1..Len(ks) |-> [key |-> ks[i], val |-> vs[i]]]) :
        <<ks, vs>> \in {p \in SeqsUpTo(FieldNames, Cardinality(FieldNames))
                              \X SeqsUpTo(EntryValues, Cardinality(FieldNames)) :
                          Len(p[1]) = Len(p[2]) /\ Injective(p[1])}}

JsonValues == ScalarValues \cup ArrayValues \cup ObjectValues

LiteralArgs == {PyInt(1), PyInt(2), PyStr(<<"a", "b">>), PyBool(TRUE)}

LiteralTypes ==
    {TLiteral(args) : args \in {a \in SeqsUpTo(LiteralArgs, 2) : a # <<>> /\ Injective(a)}}

Variants == {TInt, TStr, TFloat, TNone, TSequence(TStr)}

UnionTypes ==
    {TUnion(args) : args \in {a \in SeqsUpTo(Variants, MaxVariants) :
                                 Len(a) >= 2 /\ Injective(a)}}

TupleTypes == {TTuple(args) : args \in SeqsUpTo({TInt, TStr, Ellipsis}, MaxSlots)}

SequenceTypes == {TSequence(e) : e \in {TStr, TInt, TAny, TTuple(<<TInt, TStr>>)}}

MappingTypes ==
    {TMapping(TStr, TInt), TMapping(TStr, TFloat), TMapping(TStr, TAny), TMapping(TInt, TInt)}

TypedDictTypes ==
    {TTypedDict(("k1" :> TFloat) @@ ("k2" :> TInt), req) : req \in SUBSET {"k1", "k2"}}
      \cup {TTypedDict(("k1" :> TFloat), req) : req \in SUBSET {"k1"}}

TargetTypes ==
    {TAny, TNone, TInt, TFloat, TStr, TBool} \cup LiteralTypes \cup UnionTypes
      \cup TupleTypes \cup SequenceTypes \cup MappingTypes \cup TypedDictTypes

\* -------------------------------------------------------- state machine
NoResult == [ok |-> FALSE, val |-> Unset, err |-> Unset, calls |-> <<>>]

Init ==
    /\ js \in JsonValues
    /\ target_type \in TargetTypes
    /\ strict \in BOOLEAN
    /\ pc = "ready"
    /\ res = NoResult

Converts(name, outcome) ==
    /\ pc = "ready"
    /\ Select(target_type) = name
    /\ res' = outcome
    /\ pc' = "done"
    /\ UNCHANGED <<js, target_type, strict>>

ToAnyConvert == Converts("ToAny", ToAny_convert(js, target_type))

ToNoneConvert == Converts("ToNone", ToNone_convert(js, target_type))

ToLiteralConvert == Converts("ToLiteral", ToLiteral_convert(js, target_type))

ToUnionConvert == Converts("ToUnion", ToUnion_convert(js, target_type))

ToSimpleConvert == Converts("ToSimple", ToSimple_convert(js, target_type))

ToTupleConvert == Converts("ToTuple", ToTuple_convert(js, target_type))

ToSequenceConvert == Converts("ToSequence", ToSequence_convert(js, target_type))

ToMappingConvert == Converts("ToMapping", ToMapping_convert(js, target_type))

ToTypedMappingConvert ==
    Converts("ToTypedMapping",
             ToTypedMapping_convert(js, target_type, Annotations(target_type), strict))

Next ==
    \/ ToAnyConvert
    \/ ToNoneConvert
    \/ ToLiteralConvert
    \/ ToUnionConvert
    \/ ToSimpleConvert
    \/ ToTupleConvert
    \/ ToSequenceConvert
    \/ ToMappingConvert
    \/ ToTypedMappingConvert

Spec == Init /\ [][Next]_vars

TypeOK ==
    /\ pc \in {"ready", "done"}
    /\ res.ok \in BOOLEAN
    /\ pc = "ready" => res = NoResult

\* ------------------------------------------------------------ properties
Done(name) == pc = "done" /\ Select(target_type) = name

\* The order the claims give for the variants of a union: the string scalar
\* first if it is a variant, then the other variants in declared order.
AttemptOrder(variants) ==
    LET others == SelectSeq(variants, LAMBDA t : t.k # "str")
    IN IF Len(others) < Len(variants) THEN <<TStr>> \o others ELSE others

\* C1: ToUnion.convert attempts the variants in the order 'str first, then the
\* others as declared', returns the result of the first variant whose from_json
\* succeeds and calls from_json for no variant after it; a json string against
\* a union of str and Sequence[str] yields the string in either declared order.
C1_UnionResolutionOrder ==
    Done("ToUnion") =>
        LET order == AttemptOrder(target_type.args)
            m == Len(res.calls)
        IN /\ m >= 1 /\ m <= Len(order)
           /\ \A i \in 1..m : res.calls[i] = Call(js, order[i])
           /\ \A i \in 1..(m - 1) : ~from_json(js, order[i]).ok
           /\ res.ok => /\ from_json(js, order[m]).ok
                        /\ res.val = from_json(js, order[m]).val
           /\ ~res.ok => m = Len(order) /\ ~from_json(js, order[m]).ok
           /\ (/\ js.k = "str"
               /\ target_type.args \in {<<TStr, TSequence(TStr)>>, <<TSequence(TStr), TStr>>})
                 => res.ok /\ res.val = js /\ m = 1

C1_Witness ==
    /\ Done("ToUnion")
    /\ js = PyStr(<<"a", "b">>)
    /\ target_type.args = <<TSequence(TStr), TStr>>
    /\ res.ok /\ res.val = js /\ Len(res.calls) = 1

\* C2: ToUnion.convert fails exactly when from_json fails for every variant,
\* and then the error holds one (variant, error) pair per variant, in the order
\* of the attempts, each error with the variant that raised it.
C2_UnionTotalFailureReport ==
    Done("ToUnion") =>
        LET order == AttemptOrder(target_type.args)
            all_fail == \A i \in 1..Len(order) : ~from_json(js, order[i]).ok
        IN /\ res.ok <=> ~all_fail
           /\ ~res.ok =>
                /\ res.err.reason = "not any of"
                /\ res.err.js = js
                /\ Len(res.err.pairs) = Len(order)
                /\ \A i \in 1..Len(order) :
                      res.err.pairs[i] = <<order[i], from_json(js, order[i]).err>>

C2_Witness ==
    /\ Done("ToUnion")
    /\ ~res.ok
    /\ Len(target_type.args) = MaxVariants
    /\ target_type.args[MaxVariants] = TStr
    /\ Len(res.err.pairs) = MaxVariants
    /\ res.err.pairs[1][1] = TStr

C2_WitnessListResult ==
    /\ Done("ToUnion")
    /\ res.ok /\ res.val.k = "list" /\ res.val.items # <<>>

\* C3: ToSimple.convert succeeds, returning the value itself, iff the runtime
\* kind of the value is exactly the scalar kind of the target; true against
\* Union[int, str] fails with two per-variant causes.
C3_ScalarExactness ==
    /\ Done("ToSimple") => /\ res.ok <=> js.k = target_type.k
                           /\ res.ok => res.val = js
    /\ (Done("ToUnion") /\ js = PyBool(TRUE) /\ target_type.args = <<TInt, TStr>>)
         => ~res.ok /\ Len(res.err.pairs) = 2

\* C4: tuple arity. Without a marker the elements are converted only if the
\* number of declared slots equals the array length; one marker is replaced in
\* place by n - (d - 1) Any slots when that is not negative, and the conversion
\* fails without converting an element when it is negative.
C4_TupleArity ==
    (Done("ToTuple") /\ js.k = "list" /\ Count(target_type.args, Ellipsis) <= 1) =>
        LET args == target_type.args
            d == Len(args)
            n == Len(js.items)
            m == Len(res.calls)
            arity_error == /\ ~res.ok
                           /\ res.err.reason = "number of type parameter do not match"
                           /\ res.err.js = js
                           /\ m = 0
        IN IF Count(args, Ellipsis) = 0
           THEN /\ d # n => arity_error
                /\ d = n => /\ m <= n /\ (n > 0 => m >= 1)
                            /\ \A i \in 1..m : res.calls[i] = Call(js.items[i], args[i])
                            /\ res.ok => /\ res.val.k = "tuple"
                                         /\ Len(res.val.items) = n
           ELSE LET p == CHOOSE i \in 1..d : args[i] = Ellipsis
                    fill == n - (d - 1)
                    expanded == [i \in 1..n |->
                                    IF i < p THEN args[i]
                                    ELSE IF i < p + fill THEN TAny
                                    ELSE args[i - fill + 1]]
                IN IF fill >= 0
                   THEN /\ _replace_ellipsis(args, n) = expanded
                        /\ m <= n /\ (n > 0 => m >= 1)
                        /\ \A i \in 1..m : res.calls[i] = Call(js.items[i], expanded[i])
                        /\ res.ok => /\ res.val.k = "tuple"
                                     /\ Len(res.val.items) = n
                   ELSE arity_error

C4_Witness ==
    /\ Done("ToTuple")
    /\ js.k = "list"
    /\ target_type.args = <<Ellipsis, TInt>>
    /\ Len(js.items) = 3
    /\ res.ok /\ res.val.k = "tuple" /\ Len(res.val.items) = 3
    /\ res.calls[2].ty = TAny /\ res.calls[3].ty = TInt

C4_WitnessNegative ==
    /\ Done("ToTuple")
    /\ js.k = "list"
    /\ Count(target_type.args, Ellipsis) = 1
    /\ Len(js.items) < Len(target_type.args) - 1
    /\ ~res.ok

\* C5: a tuple type with more than one marker fails for every input, before
\* from_json is called for any element.
C5_TwoMarkersFail ==
    (Done("ToTuple") /\ Count(target_type.args, Ellipsis) > 1) =>
        /\ ~res.ok
        /\ res.err.reason = "more than one ..."
        /\ res.err.js = js /\ res.err.target_type = target_type
        /\ res.calls = <<>>

C5_Witness ==
    /\ Done("ToTuple")
    /\ target_type.args = <<Ellipsis, Ellipsis>>
    /\ js.k = "list" /\ Len(js.items) = 2
    /\ ~res.ok /\ res.calls = <<>>

\* The declared fields, the entries of the object whose key is declared and the
\* from_json call that converts an entry of a record.
Fields == DOMAIN target_type.annotations

KnownEntries == SelectSeq(js.entries, LAMBDA e : e.key \in Fields)

EntryCall(e) == Call(e.val, target_type.annotations[e.key])

HasUnknownKey == \E i \in 1..Len(js.entries) : js.entries[i].key \notin Fields

FirstUnknown ==
    CHOOSE i \in 1..Len(js.entries) :
        /\ js.entries[i].key \notin Fields
        /\ \A j \in 1..(i - 1) : js.entries[j].key \in Fields

RecordOfAllRequired ==
    /\ Done("ToTypedMapping")
    /\ js.k = "dict"
    /\ target_type.required_keys \subseteq Keys(js)

\* The lenient half of C6: only entries with a declared key are converted, in
\* input order, the others are dropped, and the key set of a result is the
\* present keys intersected with the field names.
LenientRecord ==
    LET m == Len(res.calls)
    IN /\ m <= Len(KnownEntries)
       /\ \A i \in 1..m : res.calls[i] = EntryCall(KnownEntries[i])
       /\ res.ok => /\ m = Len(KnownEntries)
                    /\ res.val.k = "dict"
                    /\ Keys(res.val) = Keys(js) \cap Fields
                    /\ \A i \in 1..m :
                          res.val.entries[i] =
                              [key |-> KnownEntries[i].key,
                               val |-> from_json(res.calls[i].js, res.calls[i].ty).val]
       /\ ~res.ok => res.err.reason # "unknown key"

UnknownKeyError(key) ==
    /\ ~res.ok
    /\ res.err.reason = "unknown key"
    /\ res.err.js = js
    /\ res.err.keys = {key}

\* C6 as stated: a strict record converter fails with an 'unknown key' error
\* whenever the object holds a key that is not a declared field.
C6_StrictFailsWithUnknownKey ==
    RecordOfAllRequired =>
        /\ ~strict => LenientRecord
        /\ (strict /\ HasUnknownKey) => UnknownKeyError(js.entries[FirstUnknown].key)
        /\ (strict /\ ~HasUnknownKey) => LenientRecord

\* C6 amended: a strict record converter fails whenever the object holds a key
\* that is not a declared field: with the 'unknown key' error when every entry
\* before the first such key converts, else with the error of the first entry
\* that does not convert. Lenient conversion is as stated.
C6_StrictLenientPolicy ==
    RecordOfAllRequired =>
        /\ ~strict => LenientRecord
        /\ (strict /\ ~HasUnknownKey) => LenientRecord
        /\ (strict /\ HasUnknownKey) =>
              LET u == FirstUnknown
                  before == {i \in 1..(u - 1) :
                                ~from_json(js.entries[i].val,
                                           target_type.annotations[js.entries[i].key]).ok}
              IN /\ ~res.ok
                 /\ before = {} => /\ UnknownKeyError(js.entries[u].key)
                                   /\ Len(res.calls) = u - 1
                 /\ before # {} =>
                       LET f == CHOOSE i \in before : \A j \in before : i <= j
                       IN /\ res.err = from_json(js.entries[f].val,
                                                 target_type.annotations[js.entries[f].key]).err
                          /\ Len(res.calls) = f

C6_Witness ==
    /\ RecordOfAllRequired
    /\ strict
    /\ Len(js.entries) = 3
    /\ js.entries[3].key \notin Fields
    /\ UnknownKeyError(js.entries[3].key)
    /\ Len(res.calls) = 2

\* C7: when a required key is absent the record conversion fails, before any
\* entry is converted, with an error that lists the missing keys; when none is
\* absent it does not fail for a missing key.
C7_ErrorListsMissingKeys ==
    (Done("ToTypedMapping") /\ js.k = "dict") =>
        LET required == target_type.required_keys
        IN /\ ~(required \subseteq Keys(js)) =>
                 /\ ~res.ok
                 /\ res.err.reason = "does not contain all required keys"
                 /\ res.err.keys = required \ Keys(js)
                 /\ res.calls = <<>>
           /\ required \subseteq Keys(js) =>
                 (res.ok \/ res.err.reason # "does not contain all required keys")

\* C8: the Sequence and the Tuple converter accept only a json array; for a
\* value of any other kind they fail and call from_json for no element.
C8_ArrayOnly ==
    ((Done("ToSequence") \/ Done("ToTuple")) /\ js.k # "list") =>
        ~res.ok /\ res.calls = <<>>

\* C9: ToLiteral.convert succeeds, returning the value unchanged, iff the value
\* is structurally equal (same kind, same content) to a member of the allowed
\* set, and otherwise fails with an error that lists the allowed set.
C9_LiteralMembership ==
    Done("ToLiteral") =>
        LET allowed == target_type.args
        IN /\ res.ok <=> \E i \in 1..Len(allowed) : allowed[i] = js
           /\ res.ok => res.val = js
           /\ ~res.ok => res.err.literals = allowed

\* The children an aggregate converts, in input order, once its own checks on
\* the value have passed: the value, its type, and whether there is a type.
Child(v, ty) == [js |-> v, ty |-> ty, typed |-> TRUE, key |-> ""]

Children ==
    IF Done("ToTuple")
    THEN LET tys == _replace_ellipsis(target_type.args, PyLen(js))
         IN [i \in 1..PyLen(js) |-> Child(PyIter(js)[i], tys[i])]
    ELSE IF Done("ToSequence")
    THEN [i \in 1..PyLen(js) |-> Child(PyIter(js)[i], target_type.args[1])]
    ELSE IF Done("ToMapping")
    THEN [i \in 1..Len(js.entries) |-> Child(js.entries[i].val, target_type.args[2])]
    ELSE LET sel == IF strict THEN js.entries ELSE KnownEntries
         IN [i \in 1..Len(sel) |->
                IF sel[i].key \in Fields
                THEN Child(sel[i].val, target_type.annotations[sel[i].key])
                ELSE [js |-> sel[i].val, ty |-> Unset, typed |-> FALSE, key |-> sel[i].key]]

ConvertsChildren ==
    \/ /\ Done("ToTuple") /\ IsSequence(js)
       /\ Count(target_type.args, Ellipsis) <= 1
       /\ Len(_replace_ellipsis(target_type.args, PyLen(js))) = PyLen(js)
    \/ Done("ToSequence") /\ IsSequence(js)
    \/ Done("ToMapping") /\ js.k = "dict" /\ target_type.args[1] = TStr
    \/ RecordOfAllRequired

ChildFails(c) == ~c.typed \/ ~from_json(c.js, c.ty).ok

\* C10: an aggregate converts its children one at a time in input order; the
\* first child whose from_json fails (or, in a strict record, whose key has no
\* field type) fails the whole conversion with that child's error, no later
\* child is converted and no partial result is returned.
C10_FirstChildFailureAborts ==
    ConvertsChildren =>
        LET ch == Children
            m == Len(res.calls)
            failing == {i \in 1..Len(ch) : ChildFails(ch[i])}
        IN /\ m <= Len(ch)
           /\ \A i \in 1..m : res.calls[i] = Call(ch[i].js, ch[i].ty)
           /\ failing = {} => res.ok /\ m = Len(ch)
           /\ failing # {} =>
                 LET f == CHOOSE i \in failing : \A j \in failing : i <= j
                 IN /\ ~res.ok
                    /\ res.val = Unset
                    /\ ch[f].typed => /\ m = f
                                      /\ res.err = from_json(ch[f].js, ch[f].ty).err
                    /\ ~ch[f].typed => /\ m = f - 1
                                       /\ UnknownKeyError(ch[f].key)

C10_Witness ==
    /\ ConvertsChildren
    /\ js.k = "list"
    /\ Len(Children) = 3
    /\ ~ChildFails(Children[1])
    /\ ChildFails(Children[2])
    /\ ~res.ok
    /\ Len(res.calls) = 2
    /\ res.err.js = Children[2].js

====
